---- MODULE Spec2Model ----
(***************************************************************************)
(* Model of the path/version resolution code of pkgsite:                   *)
(*   internal/proxydatasource/details.go  (GetLicenses, GetPathInfo)       *)
(*   internal/frontend/directory.go       (fetchDirectoryDetails,          *)
(*                                         createDirectory,                *)
(*                                         constructDirectoryURL)          *)
(*   internal/middleware LatestVersion    (only its test is in the tree)   *)
(*                                                                         *)
(* Go strings are sequences of symbols.  Path characters are one-letter    *)
(* symbols and "/" ; reserved words that the code only ever compares or    *)
(* concatenates as a whole ("std", "unknown", "latest", a version, a file  *)
(* name) are one symbol each.                                              *)
(***************************************************************************)
EXTENDS Integers, Sequences, FiniteSets, TLC

VARIABLES op, args, res

vars == <<op, args, res>>

----------------------------------------------------------------------------
(* Bounds *)

MaxDepth == 2
MaxLics == 2
MaxUnits == 2
MaxPkgs == 2
MaxBody == 2

----------------------------------------------------------------------------
(* Program constants *)

UnknownModulePath == <<"unknown">>
LatestVersion == <<"latest">>
stdlibModulePath == <<"std">>

----------------------------------------------------------------------------
(* Strings *)

SeqsUpTo(S, n) == UNION {[1..k -> S] : k \in 0..n}

Segs == {<<"a">>, <<"a", "b">>, <<"b">>}

RECURSIVE JoinSegs(_)
JoinSegs(ss) ==
    IF Len(ss) = 0 THEN <<>>
    ELSE IF Len(ss) = 1 THEN ss[1]
    ELSE ss[1] \o <<"/">> \o JoinSegs(Tail(ss))

RECURSIVE SplitFrom(_, _, _)
SplitFrom(s, i, cur) ==
    IF i > Len(s) THEN <<cur>>
    ELSE IF s[i] = "/" THEN <<cur>> \o SplitFrom(s, i + 1, <<>>)
    ELSE SplitFrom(s, i + 1, Append(cur, s[i]))

Split(s) == SplitFrom(s, 1, <<>>)

HasPrefix(s, prefix) ==
    /\ Len(prefix) <= Len(s)
    /\ SubSeq(s, 1, Len(prefix)) = prefix

TrimPrefix(s, prefix) ==
    IF HasPrefix(s, prefix) THEN SubSeq(s, Len(prefix) + 1, Len(s)) ELSE s

IsSegPrefix(a, b) ==
    LET sa == Split(a)
        sb == Split(b)
    IN  /\ Len(sa) <= Len(sb)
        /\ SubSeq(sb, 1, Len(sa)) = sa

Contains(dir, p) == IsSegPrefix(dir, p)

pathClean(s) ==
    LET keep == SelectSeq(Split(s), LAMBDA e : e # <<>> /\ e # <<".">>)
    IN  IF keep = <<>> THEN <<".">> ELSE JoinSegs(keep)

LastSlash(s) ==
    LET idx == {i \in 1..Len(s) : s[i] = "/"}
    IN  IF idx = {} THEN 0 ELSE CHOOSE i \in idx : \A j \in idx : j <= i

pathDir(s) ==
    LET i == LastSlash(s)
    IN  pathClean(SubSeq(s, 1, i))

pathJoin(a, b) ==
    LET elems == SelectSeq(<<a, b>>, LAMBDA e : e # <<>>)
    IN  IF elems = <<>> THEN <<>> ELSE pathClean(JoinSegs(elems))

----------------------------------------------------------------------------
(* Input universes *)

Paths == {JoinSegs(ss) : ss \in SeqsUpTo(Segs, MaxDepth) \ {<<>>}}

ModulePaths == {<<"a">>, <<"a", "/", "b">>, stdlibModulePath}

ConcreteVersions == {<<"v1">>, <<"v2">>}

Versions == ConcreteVersions \cup {LatestVersion}

----------------------------------------------------------------------------
(* internal/proxydatasource: the data source's collaborators.  getModule    *)
(* and findModule are methods of DataSource defined outside details.go;     *)
(* they are modelled by the set of outcomes the data-source interface       *)
(* allows, one of which the caller observes.                                *)

LicenseFileName == "LICENSE"

LicenseDirs == {<<>>} \cup {ss \o <<"/">> : ss \in Segs}

LicenseFiles == {d \o <<LicenseFileName>> : d \in LicenseDirs}

Licenses == [FilePath : LicenseFiles]

LicenseLists == SeqsUpTo(Licenses, MaxLics)

UnitsFor(path, modulePath) ==
    SeqsUpTo({[Path |-> p, Name |-> c[1], IsRedistributable |-> c[2]] :
                 p \in {path, modulePath},
                 c \in {<<(<<"n">>), TRUE>>, <<(<<"m">>), FALSE>>}}, MaxUnits)

ResolveVersion(version) ==
    IF version = LatestVersion THEN ConcreteVersions ELSE {version}

Failure(kind) == [err |-> kind]

getModule(modulePath, version, unitLists, licenseLists) ==
    {Failure("NotFound"), Failure("Internal")} \cup
    {[err |-> "nil",
      m |-> [ModulePath |-> modulePath, Version |-> v,
             Units |-> us, Licenses |-> ls]] :
        v \in ResolveVersion(version), us \in unitLists, ls \in licenseLists}

findModule(path, version) ==
    {Failure("NotFound")} \cup
    {[err |-> "nil", modulePath |-> mp, info |-> [Version |-> v]] :
        mp \in {c \in ModulePaths : Contains(c, path) \/ c = stdlibModulePath},
        v \in ResolveVersion(version)}

----------------------------------------------------------------------------
(* DataSource.GetLicenses *)

licenseApplies(fullPath, modulePath, license) ==
    LET licensePath == pathJoin(modulePath, pathDir(license.FilePath))
    IN  HasPrefix(fullPath, licensePath)

GetLicensesReturn_NoEmptyCheck(fullPath, modulePath, got) ==
    IF got.err # "nil" THEN [err |-> got.err, lics |-> <<>>]
    ELSE [err |-> "nil",
          lics |-> SelectSeq(got.m.Licenses,
                      LAMBDA l : licenseApplies(fullPath, modulePath, l))]

GetLicensesReturn(fullPath, modulePath, got) ==
    IF got.err # "nil" THEN [err |-> got.err, lics |-> <<>>]
    ELSE LET lics == SelectSeq(got.m.Licenses,
                        LAMBDA l : licenseApplies(fullPath, modulePath, l))
         IN  IF Len(lics) = 0
             THEN [err |-> "NotFound", lics |-> <<>>]
             ELSE [err |-> "nil", lics |-> lics]

GetLicenses ==
    /\ op = "idle"
    /\ \E fullPath \in Paths, modulePath \in ModulePaths,
          resolvedVersion \in ConcreteVersions :
         \E got \in getModule(modulePath, resolvedVersion, {<<>>}, LicenseLists) :
            /\ op' = "GetLicenses"
            /\ args' = [fullPath |-> fullPath, modulePath |-> modulePath,
                        resolvedVersion |-> resolvedVersion, got |-> got]
            /\ res' = GetLicensesReturn(fullPath, modulePath, got)

----------------------------------------------------------------------------
(* DataSource.GetPathInfo *)

ZeroName == <<>>

FirstUnit(units, path) ==
    LET idx == {i \in 1..Len(units) : units[i].Path = path}
    IN  IF idx = {} THEN 0 ELSE CHOOSE i \in idx : \A j \in idx : i <= j

NewPathInfo(path, modulePath, version, m) ==
    LET i == FirstUnit(m.Units, path)
    IN  [Path |-> path, ModulePath |-> modulePath, Version |-> version,
         Name |-> IF i = 0 THEN ZeroName ELSE m.Units[i].Name,
         IsRedistributable |-> IF i = 0 THEN FALSE
                               ELSE m.Units[i].IsRedistributable]

GetPathInfoReturn(path, modulePath, version, got) ==
    IF got.err # "nil" THEN [err |-> got.err]
    ELSE [err |-> "nil", pi |-> NewPathInfo(path, modulePath, version, got.m)]

GetPathInfo ==
    /\ op = "idle"
    /\ \E path \in Paths, inModulePath \in ModulePaths \cup {UnknownModulePath},
          inVersion \in Versions :
         \E found \in IF inModulePath = UnknownModulePath
                      THEN findModule(path, inVersion)
                      ELSE {[err |-> "nil", modulePath |-> inModulePath,
                             info |-> [Version |-> inVersion]]} :
            /\ op' = "GetPathInfo"
            /\ IF found.err # "nil"
               THEN /\ args' = [path |-> path, inModulePath |-> inModulePath,
                                inVersion |-> inVersion, found |-> found,
                                got |-> Failure("none")]
                    /\ res' = [err |-> found.err]
               ELSE \E got \in getModule(found.modulePath, found.info.Version,
                                         UnitsFor(path, found.modulePath), {<<>>}) :
                       /\ args' = [path |-> path, inModulePath |-> inModulePath,
                                   inVersion |-> inVersion, found |-> found,
                                   got |-> got]
                       /\ res' = GetPathInfoReturn(path, found.modulePath,
                                                   found.info.Version, got)

----------------------------------------------------------------------------
(* internal/frontend/directory.go *)

constructDirectoryURL_RootFirst(dirPath, modulePath, linkVersion) ==
    IF dirPath = modulePath \/ modulePath = stdlibModulePath
    THEN <<"/">> \o dirPath \o <<"@">> \o linkVersion
    ELSE IF linkVersion = LatestVersion
    THEN <<"/">> \o dirPath
    ELSE <<"/">> \o modulePath \o <<"@">> \o linkVersion \o <<"/">>
             \o TrimPrefix(dirPath, modulePath \o <<"/">>)

constructDirectoryURL(dirPath, modulePath, linkVersion) ==
    IF linkVersion = LatestVersion
    THEN <<"/">> \o dirPath
    ELSE IF dirPath = modulePath \/ modulePath = stdlibModulePath
    THEN <<"/">> \o dirPath \o <<"@">> \o linkVersion
    ELSE <<"/">> \o modulePath \o <<"@">> \o linkVersion \o <<"/">>
             \o TrimPrefix(dirPath, modulePath \o <<"/">>)

ConstructDirectoryURL ==
    /\ op = "idle"
    /\ \E dirPath \in Paths \cup {stdlibModulePath}, modulePath \in ModulePaths,
          linkVersion \in Versions :
            /\ op' = "constructDirectoryURL"
            /\ args' = [dirPath |-> dirPath, modulePath |-> modulePath,
                        linkVersion |-> linkVersion]
            /\ res' = constructDirectoryURL(dirPath, modulePath, linkVersion)

(* Helpers of package frontend and internal that directory.go calls and    *)
(* that are defined in other files.                                        *)

linkVersion(version, modulePath) == ConcreteVersions

Suffix(fullPath, basePath) ==
    TrimPrefix(TrimPrefix(fullPath, basePath), <<"/">>)

effectiveName(pkgPath, pkgName) ==
    IF pkgName # <<>> THEN pkgName
    ELSE LET ss == Split(pkgPath) IN ss[Len(ss)]

createPackage(pm, mi) ==
    [Path |-> pm.Path, Name |-> pm.Name, ModulePath |-> mi.ModulePath,
     Version |-> mi.Version, Synopsis |-> <<>>, PathAfterDirectory |-> <<>>]

createDirectoryHeader(dirPath, mi, lv) ==
    [Module |-> mi, Path |-> dirPath,
     URL |-> constructDirectoryURL(dirPath, mi.ModulePath, lv)]

RootLabel == <<" (root)">>

skipPackage_Inverted(pm, dirPath, includeDirPath) ==
    includeDirPath /\ pm.Path = dirPath

skipPackage(pm, dirPath, includeDirPath) ==
    ~includeDirPath /\ pm.Path = dirPath

newPackage(pm, mi, dirPath) ==
    LET newPkg == createPackage(pm, mi)
        after == Suffix(pm.Path, dirPath)
    IN  [newPkg EXCEPT !.Synopsis = pm.Synopsis,
                       !.PathAfterDirectory =
                           IF after = <<>>
                           THEN effectiveName(pm.Path, pm.Name) \o RootLabel
                           ELSE after]

SymRank(c) ==
    CASE c = "/" -> 0
      [] c = "a" -> 1
      [] c = "b" -> 2
      [] OTHER -> 3

SymLess(c, d) == SymRank(c) < SymRank(d)

RECURSIVE StrLess(_, _)
StrLess(a, b) ==
    IF Len(b) = 0 THEN FALSE
    ELSE IF Len(a) = 0 THEN TRUE
    ELSE IF a[1] = b[1] THEN StrLess(Tail(a), Tail(b))
    ELSE SymLess(a[1], b[1])

RECURSIVE InsertByPath(_, _)
InsertByPath(sorted, p) ==
    IF sorted = <<>> THEN <<p>>
    ELSE IF StrLess(p.Path, sorted[1].Path) THEN <<p>> \o sorted
    ELSE <<sorted[1]>> \o InsertByPath(Tail(sorted), p)

RECURSIVE SortByPath(_)
SortByPath(ps) ==
    IF ps = <<>> THEN <<>>
    ELSE InsertByPath(SortByPath(SubSeq(ps, 1, Len(ps) - 1)), ps[Len(ps)])

createDirectory(dirPath, mi, pkgMetas, lv, includeDirPath, failIdx) ==
    LET kept == {i \in 1..Len(pkgMetas) :
                    ~skipPackage(pkgMetas[i], dirPath, includeDirPath)}
        packages == [i \in 1..Len(pkgMetas) |->
                        newPackage(pkgMetas[i], mi, dirPath)]
        idx == SelectSeq([i \in 1..Len(pkgMetas) |-> i], LAMBDA i : i \in kept)
    IN  IF failIdx \in kept
        THEN [err |-> "Internal"]
        ELSE [err |-> "nil",
              dir |-> [DirectoryHeader |-> createDirectoryHeader(dirPath, mi, lv),
                       Packages |-> SortByPath([k \in 1..Len(idx) |->
                                                   packages[idx[k]]])]]

proxydatasourceNotSupportedErr == "Unsupported"

includeDirPathMisused_Or(dmeta, includeDirPath) ==
    /\ includeDirPath
    /\ \/ dmeta.Path # dmeta.ModulePath
       \/ dmeta.Path # stdlibModulePath

includeDirPathMisused(dmeta, includeDirPath) ==
    /\ includeDirPath
    /\ dmeta.Path # dmeta.ModulePath
    /\ dmeta.Path # stdlibModulePath

isNotFound_Negated(err) == err # "NotFound"

isNotFound(err) == err = "NotFound"

fetchDirectoryDetails(ds, dmeta, includeDirPath, got, lv, failIdx) ==
    LET mi == [ModulePath |-> dmeta.ModulePath, Version |-> dmeta.Version]
    IN  IF ds # "postgres"
        THEN [err |-> proxydatasourceNotSupportedErr]
        ELSE IF includeDirPathMisused(dmeta, includeDirPath)
        THEN [err |-> "InvalidArgument"]
        ELSE IF got.err # "nil"
        THEN IF ~isNotFound(got.err)
             THEN [err |-> got.err]
             ELSE [err |-> "nil",
                   dir |-> [DirectoryHeader |->
                                createDirectoryHeader(dmeta.Path, mi, lv),
                            Packages |-> <<>>]]
        ELSE createDirectory(dmeta.Path, mi, got.packages, lv,
                             includeDirPath, failIdx)

PackageMetasIn(dirPath) ==
    {[Path |-> dirPath, Name |-> <<>>, Synopsis |-> <<"s">>],
     [Path |-> dirPath, Name |-> <<"n">>, Synopsis |-> <<"s">>],
     [Path |-> dirPath \o <<"/", "a">>, Name |-> <<"n">>, Synopsis |-> <<"s">>],
     [Path |-> dirPath \o <<"/", "b">>, Name |-> <<"n">>, Synopsis |-> <<>>]}

GetPackagesInUnit(dirPath) ==
    {Failure("NotFound"), Failure("Internal")} \cup
    {[err |-> "nil", packages |-> ps] :
        ps \in SeqsUpTo(PackageMetasIn(dirPath), MaxPkgs)}

DataSources == {"postgres", "proxy"}

FetchDirectoryDetails ==
    /\ op = "idle"
    /\ \E ds \in DataSources, dirPath \in Paths \cup {stdlibModulePath},
          modulePath \in ModulePaths, version \in ConcreteVersions,
          includeDirPath \in BOOLEAN :
         \E got \in GetPackagesInUnit(dirPath),
            lv \in linkVersion(version, modulePath) :
           \E failIdx \in 0..(IF got.err = "nil" THEN Len(got.packages) ELSE 0) :
              LET dmeta == [Path |-> dirPath, ModulePath |-> modulePath,
                            Version |-> version]
              IN  /\ op' = "fetchDirectoryDetails"
                  /\ args' = [ds |-> ds, dmeta |-> dmeta,
                              includeDirPath |-> includeDirPath, got |-> got,
                              lv |-> lv, failIdx |-> failIdx]
                  /\ res' = fetchDirectoryDetails(ds, dmeta, includeDirPath,
                                                  got, lv, failIdx)

----------------------------------------------------------------------------
(* internal/middleware: LatestVersion.  The handler itself is defined      *)
(* outside the files at hand; it is modelled from its specification and    *)
(* from the table of TestLatestVersion.  A body is a sequence of items: a  *)
(* run of other markup, or a badge element with its class token, its data  *)
(* attributes (or none) and the token in its link.                         *)

latestClassPlaceholder == "$$GODISCOVERY_LATESTMINORCLASS$$"
LatestVersionPlaceholder == "$$GODISCOVERY_LATESTMINORVERSION$$"

ClassLatest == "DetailsHeader-badge--latest"
ClassGoToLatest == "DetailsHeader-badge--goToLatest"
ClassUnknown == "DetailsHeader-badge--unknown"

PlusEntity == "&#43;"

NoAttrs == [present |-> FALSE]

DataVersions ==
    {<<"v1.0.0">>, <<"v1.2.3">>, <<"v1.2.3", PlusEntity, "build">>}

LatestResults ==
    {<<>>, <<"v1.0.0">>, <<"v1.2.3">>, <<"v1.2.3", "+", "build">>}

PackagePaths == {<<>>, <<"p1/p2/p3">>}

BadgeAttrs ==
    {[present |-> TRUE, version |-> v, mpath |-> <<"p1/p2">>,
      ppath |-> pp, pagetype |-> <<"pkg">>] :
        v \in DataVersions, pp \in PackagePaths}

LookupKeys == {<<a.mpath, a.ppath, a.pagetype>> : a \in BadgeAttrs}

latestFuncs == [LookupKeys -> LatestResults]

lookup(latest, attrs) == latest[<<attrs.mpath, attrs.ppath, attrs.pagetype>>]

Text == [kind |-> "text"]

Badges ==
    [kind : {"badge"},
     class : {<<latestClassPlaceholder>>, <<"c">>},
     attrs : BadgeAttrs \cup {NoAttrs},
     link : {<<LatestVersionPlaceholder>>, <<"l">>}]

TestBadge(version, ppath) ==
    [kind |-> "badge", class |-> <<latestClassPlaceholder>>,
     attrs |-> [present |-> TRUE, version |-> version, mpath |-> <<"p1/p2">>,
                ppath |-> ppath, pagetype |-> <<"pkg">>],
     link |-> <<LatestVersionPlaceholder>>]

TestCase(latest, version, ppath, class) ==
    [latest |-> [k \in LookupKeys |-> latest],
     in |-> <<Text, TestBadge(version, ppath)>>,
     want |-> <<Text, [TestBadge(version, ppath) EXCEPT !.class = <<class>>,
                                                        !.link = latest]>>]

TestLatestVersion ==
    {TestCase(<<"v1.2.3">>, <<"v1.0.0">>, <<"p1/p2/p3">>, ClassGoToLatest),
     TestCase(<<"v1.2.3">>, <<"v1.2.3">>, <<"p1/p2/p3">>, ClassLatest),
     TestCase(<<"v1.2.3", "+", "build">>, <<"v1.2.3", PlusEntity, "build">>,
              <<"p1/p2/p3">>, ClassLatest),
     TestCase(<<"v1.2.3">>, <<"v1.0.0">>, <<>>, ClassGoToLatest),
     TestCase(<<"v1.2.3">>, <<"v1.2.3">>, <<>>, ClassLatest),
     TestCase(<<>>, <<"v1.2.3">>, <<>>, ClassUnknown),
     [latest |-> [k \in LookupKeys |-> <<"v1.2.3">>],
      in |-> <<Text, [kind |-> "badge", class |-> <<latestClassPlaceholder>>,
                      attrs |-> NoAttrs, link |-> <<LatestVersionPlaceholder>>]>>,
      want |-> <<Text, [kind |-> "badge", class |-> <<latestClassPlaceholder>>,
                        attrs |-> NoAttrs,
                        link |-> <<LatestVersionPlaceholder>>]>>]}

Bodies ==
    SeqsUpTo({Text} \cup Badges, MaxBody) \cup {t.in : t \in TestLatestVersion}

unescape_Identity(s) == s

unescape(s) == [i \in 1..Len(s) |-> IF s[i] = PlusEntity THEN "+" ELSE s[i]]

latestClass(requestedVersion, latestVersion) ==
    IF latestVersion = <<>> THEN ClassUnknown
    ELSE IF latestVersion = requestedVersion THEN ClassLatest
    ELSE ClassGoToLatest

rewriteBadge_Unmatched(item, latest) ==
    IF item.kind # "badge" THEN item
    ELSE LET requestedVersion ==
                 IF item.attrs.present THEN unescape(item.attrs.version) ELSE <<>>
             latestVersion ==
                 IF item.attrs.present THEN lookup(latest, item.attrs) ELSE <<>>
         IN  [item EXCEPT
                !.class = IF @ = <<latestClassPlaceholder>>
                          THEN <<latestClass(requestedVersion, latestVersion)>>
                          ELSE @,
                !.link = IF @ = <<LatestVersionPlaceholder>>
                         THEN latestVersion ELSE @]

rewriteBadge(item, latest) ==
    IF item.kind # "badge" \/ ~item.attrs.present THEN item
    ELSE LET requestedVersion == unescape(item.attrs.version)
             latestVersion == lookup(latest, item.attrs)
         IN  [item EXCEPT
                !.class = IF @ = <<latestClassPlaceholder>>
                          THEN <<latestClass(requestedVersion, latestVersion)>>
                          ELSE @,
                !.link = IF @ = <<LatestVersionPlaceholder>>
                         THEN latestVersion ELSE @]

rewriteBody(body, latest) ==
    [i \in 1..Len(body) |-> rewriteBadge(body[i], latest)]

LatestVersionHandler ==
    /\ op = "idle"
    /\ \E body \in Bodies, latest \in latestFuncs :
            /\ op' = "LatestVersion"
            /\ args' = [body |-> body, latest |-> latest]
            /\ res' = [err |-> "nil", body |-> rewriteBody(body, latest)]

----------------------------------------------------------------------------
(* The system: one request at a time is served from the idle state.        *)

Init ==
    /\ op = "idle"
    /\ args = <<>>
    /\ res = <<>>

Return ==
    /\ op # "idle"
    /\ op' = "idle"
    /\ args' = <<>>
    /\ res' = <<>>

Next ==
    \/ GetLicenses
    \/ GetPathInfo
    \/ ConstructDirectoryURL
    \/ FetchDirectoryDetails
    \/ LatestVersionHandler
    \/ Return

Spec == Init /\ [][Next]_vars

----------------------------------------------------------------------------
(* Properties *)

InSeq(x, xs) == \E i \in 1..Len(xs) : xs[i] = x

LicenseDir(modulePath, license) == pathJoin(modulePath, pathDir(license.FilePath))

Fetched == op = "GetLicenses" /\ args.got.err = "nil"

\* C1: GetLicenses returns license L if and only if the directory that holds
\* L, join(modulePath, dirname(L.FilePath)), is fullPath or an ancestor
\* directory of fullPath, by whole path segments.
C1_LicensesOfAncestorDirsOnly ==
    Fetched =>
        \A i \in 1..Len(args.got.m.Licenses) :
            LET L == args.got.m.Licenses[i]
            IN  InSeq(L, res.lics)
                    <=> Contains(LicenseDir(args.modulePath, L), args.fullPath)

Resolved == op = "GetPathInfo" /\ res.err = "nil"

\* C2: a PathInfo returned by a successful GetPathInfo never carries the
\* unknown-module sentinel as ModulePath nor the "latest" sentinel as Version.
C2_PathInfoHasNoSentinels ==
    Resolved =>
        /\ res.pi.ModulePath # UnknownModulePath
        /\ res.pi.Version # LatestVersion

\* C3: a PathInfo returned by a successful GetPathInfo has a Path that is
\* equal to or nested under its ModulePath, unless ModulePath is the
\* standard-library module.
C3_PathUnderModulePath ==
    Resolved =>
        \/ res.pi.ModulePath = stdlibModulePath
        \/ Contains(res.pi.ModulePath, res.pi.Path)

NoLicensePasses ==
    \A i \in 1..Len(args.got.m.Licenses) :
        ~HasPrefix(args.fullPath, LicenseDir(args.modulePath, args.got.m.Licenses[i]))

\* C4: GetLicenses never succeeds with an empty list: a success carries at
\* least one license, and a fetched module none of whose licenses passes the
\* path filter yields a NotFound error and a nil list.
C4_NoEmptyLicenseSuccess ==
    op = "GetLicenses" =>
        /\ res.err = "nil" => Len(res.lics) >= 1
        /\ (args.got.err = "nil" /\ NoLicensePasses) =>
               (res.err = "NotFound" /\ res.lics = <<>>)

C4_Witness ==
    /\ Fetched
    /\ Len(args.got.m.Licenses) > 0
    /\ NoLicensePasses
    /\ res.err = "NotFound"

IsRootCase == args.dirPath = args.modulePath \/ args.modulePath = stdlibModulePath

\* C5: constructDirectoryURL returns "/"+dirPath when linkVersion is
\* "latest"; else "/"+dirPath+"@"+linkVersion when dirPath = modulePath or
\* modulePath is the standard library; else
\* "/"+modulePath+"@"+linkVersion+"/"+suffix, suffix being dirPath with the
\* prefix modulePath+"/" stripped.  The cases are tried in this order.
C5_DirectoryURLThreeWay ==
    op = "constructDirectoryURL" =>
        /\ args.linkVersion = LatestVersion =>
               res = <<"/">> \o args.dirPath
        /\ (args.linkVersion # LatestVersion /\ IsRootCase) =>
               res = <<"/">> \o args.dirPath \o <<"@">> \o args.linkVersion
        /\ (args.linkVersion # LatestVersion /\ ~IsRootCase) =>
               \E k \in 0..Len(args.dirPath) :
                   LET suffix == SubSeq(args.dirPath, k + 1, Len(args.dirPath))
                   IN  /\ res = <<"/">> \o args.modulePath \o <<"@">>
                                  \o args.linkVersion \o <<"/">> \o suffix
                       /\ IF HasPrefix(args.dirPath, args.modulePath \o <<"/">>)
                          THEN k = Len(args.modulePath) + 1
                          ELSE k = 0

C5_Witness ==
    /\ op = "constructDirectoryURL"
    /\ args.linkVersion # LatestVersion
    /\ ~IsRootCase
    /\ HasPrefix(args.dirPath, args.modulePath \o <<"/">>)
    /\ res = <<"/">> \o args.modulePath \o <<"@">> \o args.linkVersion
               \o <<"/">> \o SubSeq(args.dirPath, Len(args.modulePath) + 2,
                                    Len(args.dirPath))

Fetching == op = "fetchDirectoryDetails"

AtRoot ==
    \/ args.dmeta.Path = args.dmeta.ModulePath
    \/ args.dmeta.Path = stdlibModulePath

\* C6 as stated: fetchDirectoryDetails with includeDirPath = true and a
\* dirPath that is neither the module path nor the standard-library path
\* fails with InvalidArgument, for every data source and package list.
C6_NonRootIsInvalidArgument ==
    (Fetching /\ args.includeDirPath /\ ~AtRoot) =>
        res.err = "InvalidArgument"

\* C6 as amended: with includeDirPath = true and a dirPath that is neither
\* the module path nor the standard-library path, fetchDirectoryDetails
\* returns no Directory; the error is InvalidArgument when the data source is
\* the postgres database, and the not-supported error of the data-source type
\* check otherwise.  With includeDirPath = true and dirPath equal to the
\* module path or the standard-library path the result is never
\* InvalidArgument.
C6_NonRootIsInvalidArgumentOnPostgres ==
    Fetching =>
        /\ (args.includeDirPath /\ ~AtRoot) =>
               /\ res.err # "nil"
               /\ res.err = IF args.ds = "postgres" THEN "InvalidArgument"
                            ELSE proxydatasourceNotSupportedErr
        /\ (args.includeDirPath /\ AtRoot) => res.err # "InvalidArgument"

C6_Witness ==
    /\ Fetching
    /\ args.ds = "postgres"
    /\ args.includeDirPath
    /\ ~AtRoot
    /\ args.got.err = "nil"
    /\ Len(args.got.packages) > 0
    /\ res.err = "InvalidArgument"

Queried ==
    /\ Fetching
    /\ args.ds = "postgres"
    /\ ~(args.includeDirPath /\ ~AtRoot)

\* C7: when GetPackagesInUnit fails with NotFound, fetchDirectoryDetails
\* succeeds with a Directory that has the header for (dirPath, module) and no
\* packages; when it fails with another kind of error, that error is returned
\* and there is no Directory.
C7_NotFoundIsEmptyDirectory ==
    Queried =>
        /\ args.got.err = "NotFound" =>
               /\ res.err = "nil"
               /\ res.dir.Packages = <<>>
               /\ res.dir.DirectoryHeader.Path = args.dmeta.Path
               /\ res.dir.DirectoryHeader.Module.ModulePath = args.dmeta.ModulePath
               /\ res.dir.DirectoryHeader.Module.Version = args.dmeta.Version
        /\ args.got.err \notin {"nil", "NotFound"} =>
               /\ res.err = args.got.err
               /\ DOMAIN res = {"err"}

C7_Witness ==
    /\ Queried
    /\ args.got.err = "NotFound"
    /\ res.err = "nil"
    /\ res.dir.Packages = <<>>

Listed ==
    /\ Fetching
    /\ ~args.includeDirPath
    /\ args.got.err = "nil"
    /\ res.err = "nil"

CountPath(ps, path) == Cardinality({i \in 1..Len(ps) : ps[i].Path = path})

\* C8: with includeDirPath = false the Directory built by createDirectory
\* holds no package whose Path is dirPath, and holds every input package whose
\* Path is not dirPath.
C8_DirPathNotListed ==
    Listed =>
        /\ \A i \in 1..Len(res.dir.Packages) :
               res.dir.Packages[i].Path # args.dmeta.Path
        /\ \A j \in 1..Len(args.got.packages) :
               LET pm == args.got.packages[j]
               IN  pm.Path # args.dmeta.Path =>
                       /\ \E i \in 1..Len(res.dir.Packages) :
                              /\ res.dir.Packages[i].Path = pm.Path
                              /\ res.dir.Packages[i].Name = pm.Name
                       /\ CountPath(res.dir.Packages, pm.Path)
                              = CountPath(args.got.packages, pm.Path)

C8_Witness ==
    /\ Listed
    /\ \E j \in 1..Len(args.got.packages) :
           args.got.packages[j].Path = args.dmeta.Path
    /\ \E j \in 1..Len(args.got.packages) :
           args.got.packages[j].Path # args.dmeta.Path
    /\ Len(res.dir.Packages) = 1

Annotated == op = "LatestVersion"

Matched(item) == item.kind = "badge" /\ item.attrs.present

Decoded(version) ==
    IF version = <<"v1.2.3", PlusEntity, "build">>
    THEN <<"v1.2.3", "+", "build">>
    ELSE version

\* C9: for every matched badge element, with requestedVersion its
\* data-version attribute after entity decoding, the class placeholder
\* becomes the unknown class when latest is empty, the latest class when
\* latest equals requestedVersion and the goToLatest class otherwise, and the
\* version placeholder in its link becomes the latest string; the rest of the
\* body is unchanged.
C9_BadgeRewritten ==
    Annotated =>
        /\ Len(res.body) = Len(args.body)
        /\ \A i \in 1..Len(args.body) :
               LET in == args.body[i]
                   out == res.body[i]
                   found == args.latest[<<in.attrs.mpath, in.attrs.ppath,
                                          in.attrs.pagetype>>]
               IN  IF ~Matched(in) THEN out = in
                   ELSE /\ out.kind = in.kind
                        /\ out.attrs = in.attrs
                        /\ IF in.class = <<latestClassPlaceholder>>
                           THEN /\ found = <<>> =>
                                       out.class = <<ClassUnknown>>
                                /\ (found # <<>>
                                      /\ found = Decoded(in.attrs.version)) =>
                                       out.class = <<ClassLatest>>
                                /\ (found # <<>>
                                      /\ found # Decoded(in.attrs.version)) =>
                                       out.class = <<ClassGoToLatest>>
                           ELSE out.class = in.class
                        /\ IF in.link = <<LatestVersionPlaceholder>>
                           THEN out.link = found
                           ELSE out.link = in.link

C9_Witness ==
    /\ Annotated
    /\ \E t \in TestLatestVersion :
           /\ args.body = t.in
           /\ args.latest = t.latest
           /\ res.body = t.want
           /\ t.in[2].attrs.present
           /\ t.in[2].attrs.version = <<"v1.2.3", PlusEntity, "build">>
           /\ t.want[2].class = <<ClassLatest>>
           /\ t.want[2].link = <<"v1.2.3", "+", "build">>

HasPlaceholder(item) ==
    /\ item.kind = "badge"
    /\ item.class = <<latestClassPlaceholder>>
    /\ item.link = <<LatestVersionPlaceholder>>

\* C10: a body with no badge element that carries the data attributes is
\* written out unchanged and the request does not fail, even when the
\* placeholder tokens occur in it.
C10_UnmatchedBodyPassesThrough ==
    (Annotated /\ \A i \in 1..Len(args.body) : ~Matched(args.body[i])) =>
        /\ res.err = "nil"
        /\ res.body = args.body

C10_Witness ==
    /\ Annotated
    /\ \A i \in 1..Len(args.body) : ~Matched(args.body[i])
    /\ \E i \in 1..Len(args.body) : HasPlaceholder(args.body[i])
    /\ \E t \in TestLatestVersion : args.body = t.in /\ res.body = t.want

====
